---- MODULE Spec2Model ----
(***************************************************************************)
(* Verification model of the faker API-documentation tooling:              *)
(*   - the JSDoc verification harness (verify-jsdoc-tags.spec.ts),         *)
(*   - the page/index generation step (generate.ts),                       *)
(*   - the number module's int() (modules/number).                         *)
(* Each part has its own specification over the shared variables; the      *)
(* variables of the parts that a specification does not move keep their    *)
(* initial (idle) values.                                                  *)
(***************************************************************************)
EXTENDS Integers, Sequences, FiniteSets, TLC

VARIABLES
  \* ---- verification harness ----
  spyReuse,      \* does vi.spyOn on an already spied method hand back the old spy
  ncall,         \* number of callables (module/method entries) of the project
  sig,           \* the @deprecated state of the running callable's signature
  phase,         \* "init" | "run" | "done": position of the test file
  cur,           \* callable whose describe block is running (0: none)
  running,       \* async test awaiting its import: "none" | "example" | "deprecated"
  done,          \* per callable: the tests that have completed
  writes,        \* per callable: how often its example file was written
  tempExists,    \* does the temp directory exist
  spyInstalled,  \* is console.warn currently a spy
  spyCalls,      \* calls recorded by the spy that console.warn currently is
  lastDep,       \* what the last completed 'verify @deprecated tag' saw
  \* ---- generate() ----
  gpc, classPages, modulePages, randPage, utilPage, pages,
  pagesIndex, diffIndex, searchIndex, run, prevIndex,
  \* ---- reference validation ----
  modules,       \* project: module field name -> set of method names
  seeAlsos, seeResult, isHtml, link, linkResult, linkCount,
  \* ---- number.int ----
  ipc,           \* "ready" | "loop" | "returned" | "thrown"
  optMin2,       \* options.min, in halves (optMin2 = 3 is min = 1.5)
  optMax2,       \* options.max, in halves
  optExclude,    \* options.exclude
  result,        \* the local result / the value returned
  err            \* which FakerError was thrown ("" for none)

harnessVars == <<spyReuse, ncall, sig, phase, cur, running, done, writes,
                 tempExists, spyInstalled, spyCalls, lastDep>>
genVars == <<gpc, classPages, modulePages, randPage, utilPage, pages,
             pagesIndex, diffIndex, searchIndex, run, prevIndex>>
refVars == <<modules, seeAlsos, seeResult, isHtml, link, linkResult, linkCount>>
intVars == <<ipc, optMin2, optMax2, optExclude, result, err>>
vars == <<harnessVars, genVars, refVars, intVars>>

(***************************************************************************)
(* Bounds                                                                  *)
(***************************************************************************)
NumCallables == 2
MaxEmit == 1
MaxClasses == 1
MaxModules == 2
MaxTitle == 2
MaxRuns == 2
MaxSee == 2
MaxLinks == 2
MaxVal == 2
MaxExclude == 2
RandDenom == 4

\* The signature slot while no method's describe block is running.
NoSig == [declared |-> FALSE, msgEmpty |-> TRUE]

\* No 'verify @deprecated tag' has just completed.
NoDep == [c |-> 0, passed |-> FALSE, observed |-> 0, own |-> 0]

(***************************************************************************)
(* Idle values of the parts a specification does not move                  *)
(***************************************************************************)
HarnessIdle ==
  /\ spyReuse = FALSE /\ ncall = 0 /\ sig = NoSig /\ phase = "off" /\ cur = 0
  /\ running = "none" /\ done = <<>> /\ writes = <<>> /\ tempExists = FALSE
  /\ spyInstalled = FALSE /\ spyCalls = 0
  /\ lastDep = NoDep

GenIdle ==
  /\ gpc = "off" /\ classPages = <<>> /\ modulePages = <<>>
  /\ randPage = 0 /\ utilPage = 0 /\ pages = <<>> /\ pagesIndex = <<>>
  /\ diffIndex = <<>> /\ searchIndex = <<>> /\ run = 0 /\ prevIndex = <<>>

RefIdle ==
  /\ modules = <<>> /\ seeAlsos = <<>> /\ seeResult = "off" /\ isHtml = FALSE
  /\ link = <<>> /\ linkResult = "off" /\ linkCount = 0

IntIdle ==
  /\ ipc = "off" /\ optMin2 = 0 /\ optMax2 = 0 /\ optExclude = <<>>
  /\ result = 0 /\ err = ""

(***************************************************************************)
(* The verification harness (test/scripts/apidoc/verify-jsdoc-tags.spec.ts)*)
(***************************************************************************)
\* The six it() blocks registered for every method.
Tests == {"description", "example", "deprecated", "params", "see", "since"}

\* Tests whose verdict rests on documentation content alone.
PlainTests == {"description", "params", "see", "since"}

\* A signature's @deprecated state. extractTagContent('@deprecated') is empty
\* when there is no tag, so an undeclared tag has an empty message.
Signatures ==
  { s \in [declared : BOOLEAN, msgEmpty : BOOLEAN] : ~s.declared => s.msgEmpty }

InitHarness ==
  /\ GenIdle /\ RefIdle /\ IntIdle
  /\ spyReuse \in BOOLEAN
  /\ ncall \in 0..NumCallables
  /\ sig = NoSig
  /\ phase = "init"
  /\ cur = 0
  /\ running = "none"
  /\ done = [c \in 1..ncall |-> {}]
  /\ writes = [c \in 1..ncall |-> 0]
  /\ tempExists = FALSE
  /\ spyInstalled = FALSE
  /\ spyCalls = 0
  /\ lastDep = NoDep

\* beforeAll(initMarkdownRenderer)
SetupAll ==
  /\ phase = "init"
  /\ phase' = "run"
  /\ UNCHANGED <<spyReuse, ncall, sig, cur, running, done, writes, tempExists,
                 spyInstalled, spyCalls>>
  /\ lastDep' = NoDep

\* A variant of the per-method beforeAll that writes no example file.
BeginCallableNoWrite(c) ==
  /\ phase = "run" /\ cur = 0 /\ c \in 1..ncall
  /\ done[c] = {}
  /\ cur' = c
  /\ sig' \in Signatures
  /\ UNCHANGED <<spyReuse, ncall, phase, running, done, writes, tempExists,
                 spyInstalled, spyCalls>>
  /\ lastDep' = NoDep

\* The per-method beforeAll: mkdirSync(dir, recursive) and writeFileSync(path).
\* The runner enters a method's describe block once, before its tests; the
\* block's signature (an input of the project) is read here.
BeginCallable(c) ==
  /\ phase = "run" /\ cur = 0 /\ c \in 1..ncall
  /\ done[c] = {}
  /\ cur' = c
  /\ sig' \in Signatures
  /\ tempExists' = TRUE
  /\ writes' = [writes EXCEPT ![c] = @ + 1]
  /\ UNCHANGED <<spyReuse, ncall, phase, running, done,
                 spyInstalled, spyCalls>>
  /\ lastDep' = NoDep

\* 'verify description', 'verify @param tags', 'verify @see tags',
\* 'verify @since tag': synchronous with respect to the temp files; they pass
\* or fail on the documentation's content and complete either way.
PlainTest(t) ==
  /\ phase = "run" /\ cur # 0 /\ running = "none"
  /\ t \in PlainTests \ done[cur]
  /\ done' = [done EXCEPT ![cur] = @ \cup {t}]
  /\ UNCHANGED <<spyReuse, ncall, sig, phase, cur, running, writes, tempExists,
                 spyInstalled, spyCalls>>
  /\ lastDep' = NoDep

\* 'verify @example tag' up to its await: with no examples the expect throws
\* and the test completes without importing; otherwise the import starts.
ExampleStart ==
  /\ phase = "run" /\ cur # 0 /\ running = "none"
  /\ "example" \notin done[cur]
  /\ \E hasExamples \in BOOLEAN :
       IF hasExamples
         THEN running' = "example" /\ done' = done
         ELSE running' = "none" /\ done' = [done EXCEPT ![cur] = @ \cup {"example"}]
  /\ UNCHANGED <<spyReuse, ncall, sig, phase, cur, writes, tempExists,
                 spyInstalled, spyCalls>>
  /\ lastDep' = NoDep

\* The import under ?scope=example settles (resolves or rejects). Warnings the
\* example emits go to whatever console.warn currently is.
ExampleFinish ==
  /\ running = "example"
  /\ \E emits \in 0..MaxEmit :
       spyCalls' = IF spyInstalled THEN spyCalls + emits ELSE spyCalls
  /\ running' = "none"
  /\ done' = [done EXCEPT ![cur] = @ \cup {"example"}]
  /\ UNCHANGED <<spyReuse, ncall, sig, phase, cur, writes, tempExists,
                 spyInstalled>>
  /\ lastDep' = NoDep

\* vi.spyOn(console, 'warn') with the spy of an earlier test never restored:
\* the calls the returned spy starts with. A mock library that hands back the
\* spy already in place keeps its recorded calls; one that wraps the method
\* anew starts from zero.
SpyOnCalls(installed, reuse, calls) ==
  IF installed /\ reuse THEN calls ELSE 0

\* 'verify @deprecated tag' up to its await.
DeprecatedStart ==
  /\ phase = "run" /\ cur # 0 /\ running = "none"
  /\ "deprecated" \notin done[cur]
  /\ spyCalls' = SpyOnCalls(spyInstalled, spyReuse, spyCalls)
  /\ spyInstalled' = TRUE
  /\ running' = "deprecated"
  /\ UNCHANGED <<spyReuse, ncall, sig, phase, cur, done, writes, tempExists>>
  /\ lastDep' = NoDep

\* The expectations that omit the check of the @deprecated message.
DeprecatedExpectNoMessage(s, observed) ==
  IF s.declared THEN observed > 0 ELSE observed = 0

\* The expectations after the import: do they all hold.
DeprecatedExpect(s, observed) ==
  IF s.declared
    THEN observed > 0 /\ ~s.msgEmpty
    ELSE observed = 0

\* The import under ?scope=deprecated settles; if it rejects the test fails at
\* the await, otherwise the expectations decide.
DeprecatedFinish ==
  /\ running = "deprecated"
  /\ \E emits \in 0..MaxEmit, throws \in BOOLEAN :
       /\ spyCalls' = spyCalls + emits
       /\ lastDep' = [c |-> cur,
                      passed |-> ~throws /\ DeprecatedExpect(sig, spyCalls + emits),
                      observed |-> spyCalls + emits,
                      own |-> emits]
  /\ running' = "none"
  /\ done' = [done EXCEPT ![cur] = @ \cup {"deprecated"}]
  /\ UNCHANGED <<spyReuse, ncall, sig, phase, cur, writes, tempExists, spyInstalled>>

\* The method's describe block ends when all of its tests have completed.
EndCallable ==
  /\ phase = "run" /\ cur # 0 /\ running = "none"
  /\ done[cur] = Tests
  /\ cur' = 0
  /\ sig' = NoSig
  /\ UNCHANGED <<spyReuse, ncall, phase, running, done, writes, tempExists,
                 spyInstalled, spyCalls>>
  /\ lastDep' = NoDep

\* A teardown that leaves the temp folder in place.
TeardownAllKeep ==
  /\ phase = "run" /\ cur = 0
  /\ \A c \in 1..ncall : done[c] = Tests
  /\ phase' = "done"
  /\ UNCHANGED <<spyReuse, ncall, sig, cur, running, done, writes, tempExists,
                 spyInstalled, spyCalls>>
  /\ lastDep' = NoDep

\* afterAll: if (existsSync(tempDir)) rmSync(tempDir, recursive). The runner
\* calls it once every describe block of the file has finished.
TeardownAll ==
  /\ phase = "run" /\ cur = 0
  /\ \A c \in 1..ncall : done[c] = Tests
  /\ phase' = "done"
  /\ tempExists' = IF tempExists THEN FALSE ELSE tempExists
  /\ UNCHANGED <<spyReuse, ncall, sig, cur, running, done, writes,
                 spyInstalled, spyCalls>>
  /\ lastDep' = NoDep

Init == InitHarness

Next ==
  \/ SetupAll /\ UNCHANGED <<genVars, refVars, intVars>>
  \/ (\E c \in 1..NumCallables : BeginCallable(c)) /\ UNCHANGED <<genVars, refVars, intVars>>
  \/ (\E t \in PlainTests : PlainTest(t)) /\ UNCHANGED <<genVars, refVars, intVars>>
  \/ ExampleStart /\ UNCHANGED <<genVars, refVars, intVars>>
  \/ ExampleFinish /\ UNCHANGED <<genVars, refVars, intVars>>
  \/ DeprecatedStart /\ UNCHANGED <<genVars, refVars, intVars>>
  \/ DeprecatedFinish /\ UNCHANGED <<genVars, refVars, intVars>>
  \/ EndCallable /\ UNCHANGED <<genVars, refVars, intVars>>
  \/ TeardownAll /\ UNCHANGED <<genVars, refVars, intVars>>

Spec == Init /\ [][Next]_vars

\* The test runner runs every registered hook and test to completion.
FairSpec == Spec /\ WF_vars(Next)

(***************************************************************************)
(* generate() (scripts/apidoc/generate.ts)                                 *)
(***************************************************************************)
\* Page titles, named by their rank in the collation order.
Titles == 1..MaxTitle

\* Sequences over S of length at most n.
SeqUpTo(S, n) == UNION { [1..k -> S] : k \in 0..n }

\* A page as a processor returns it. Its link and its diff are its own: they
\* are named after the processor and the position that produced the page.
Page(title, origin) == [text |-> title, link |-> origin, diff |-> origin]

\* a.text.localeCompare(b.text): negative, zero or positive.
LocaleCompare(a, b) == IF a < b THEN -1 ELSE IF a > b THEN 1 ELSE 0

\* Where a stable sort puts page p among the sorted pages s: after every page
\* that does not compare greater.
RECURSIVE InsertPage(_, _)
InsertPage(s, p) ==
  IF s = <<>> THEN <<p>>
  ELSE IF LocaleCompare(s[1].text, p.text) <= 0
    THEN <<s[1]>> \o InsertPage(Tail(s), p)
    ELSE <<p>> \o s

\* The module pages left in the order the processor returned them.
SortByTitleUnsorted(s) == s

\* (await processModules(project)).sort((a, b) => a.text.localeCompare(b.text))
RECURSIVE SortByTitle(_)
SortByTitle(s) ==
  IF s = <<>> THEN <<>>
  ELSE InsertPage(SortByTitle(SubSeq(s, 1, Len(s) - 1)), s[Len(s)])

\* Object.fromEntries(entries): a later entry of a key replaces an earlier one.
FromEntries(entries) ==
  [k \in { entries[i][1] : i \in DOMAIN entries } |->
     entries[CHOOSE i \in DOMAIN entries :
               /\ entries[i][1] = k
               /\ \A j \in DOMAIN entries : entries[j][1] = k => j <= i][2]]

\* pages.map(({ text, link }) => ({ text, link }))
TextLink(ps) == [i \in DOMAIN ps |-> [text |-> ps[i].text, link |-> ps[i].link]]

\* pages.map(({ text, diff }) => [text, diff])
TextDiff(ps) == [i \in DOMAIN ps |-> <<ps[i].text, ps[i].diff>>]

InitGenerate ==
  /\ HarnessIdle /\ RefIdle /\ IntIdle
  /\ gpc = "idle"
  /\ \E ts \in SeqUpTo(Titles, MaxClasses) :
       classPages = [i \in DOMAIN ts |-> Page(ts[i], <<"class", i>>)]
  /\ \E ts \in SeqUpTo(Titles, MaxModules) :
       modulePages = [i \in DOMAIN ts |-> Page(ts[i], <<"module", i>>)]
  /\ \E t \in Titles : randPage = Page(t, <<"randomizer", 1>>)
  /\ \E t \in Titles : utilPage = Page(t, <<"utilities", 1>>)
  /\ pages = <<>>
  /\ pagesIndex = <<>>
  /\ diffIndex = <<>>
  /\ searchIndex = <<>>
  /\ run = 0
  /\ prevIndex = <<>>

\* generate() is called: loadProject() and app.generateJson(). A second call
\* runs over the same project; the index of the call before is remembered.
GenerateStart ==
  /\ gpc \in {"idle", "done"}
  /\ run < MaxRuns
  /\ run' = run + 1
  /\ prevIndex' = pagesIndex
  /\ gpc' = "loaded"
  /\ pages' = <<>> /\ pagesIndex' = <<>> /\ diffIndex' = <<>> /\ searchIndex' = <<>>
  /\ UNCHANGED <<classPages, modulePages, randPage, utilPage>>

\* const pages = await Promise.all([...classes, ...modules.sort(), randomizer, utilities])
BuildPages ==
  /\ gpc = "loaded"
  /\ pages' = classPages \o SortByTitle(modulePages) \o <<randPage>> \o <<utilPage>>
  /\ gpc' = "pages"
  /\ UNCHANGED <<classPages, modulePages, randPage, utilPage, pagesIndex,
                 diffIndex, searchIndex, run, prevIndex>>

\* await writeApiPagesIndex(pages.map(...))
WritePagesIndex ==
  /\ gpc = "pages"
  /\ pagesIndex' = TextLink(pages)
  /\ gpc' = "index"
  /\ UNCHANGED <<classPages, modulePages, randPage, utilPage, pages,
                 diffIndex, searchIndex, run, prevIndex>>

\* writeApiDiffIndex(Object.fromEntries(pages.map(...)))
WriteDiffIndex ==
  /\ gpc = "index"
  /\ diffIndex' = FromEntries(TextDiff(pages))
  /\ gpc' = "diff"
  /\ UNCHANGED <<classPages, modulePages, randPage, utilPage, pages,
                 pagesIndex, searchIndex, run, prevIndex>>

\* writeApiSearchIndex(pages)
WriteSearchIndex ==
  /\ gpc = "diff"
  /\ searchIndex' = pages
  /\ gpc' = "search"
  /\ UNCHANGED <<classPages, modulePages, randPage, utilPage, pages,
                 pagesIndex, diffIndex, run, prevIndex>>

\* await writeSourceBaseUrl(project): the call returns.
WriteSourceBaseUrl ==
  /\ gpc = "search"
  /\ gpc' = "done"
  /\ UNCHANGED <<classPages, modulePages, randPage, utilPage, pages,
                 pagesIndex, diffIndex, searchIndex, run, prevIndex>>

NextGenerate ==
  \/ GenerateStart /\ UNCHANGED <<harnessVars, refVars, intVars>>
  \/ BuildPages /\ UNCHANGED <<harnessVars, refVars, intVars>>
  \/ WritePagesIndex /\ UNCHANGED <<harnessVars, refVars, intVars>>
  \/ WriteDiffIndex /\ UNCHANGED <<harnessVars, refVars, intVars>>
  \/ WriteSearchIndex /\ UNCHANGED <<harnessVars, refVars, intVars>>
  \/ WriteSourceBaseUrl /\ UNCHANGED <<harnessVars, refVars, intVars>>

SpecGenerate == InitGenerate /\ [][NextGenerate]_vars

(***************************************************************************)
(* Claims about generate()                                                 *)
(***************************************************************************)
\* The diff index has been written by the current call.
DiffIndexWritten == gpc \in {"diff", "search", "done"}

\* The pages index has been written by the current call.
PagesIndexWritten == gpc \in {"index", "diff", "search", "done"}

\* C3: a diff index is written only when all page titles are distinct, so it
\* has exactly one entry per page.
C3_DuplicateTitleIsFatal ==
  DiffIndexWritten =>
    /\ \A i, j \in DOMAIN pages : pages[i].text = pages[j].text => i = j
    /\ Cardinality(DOMAIN diffIndex) = Len(pages)

Fields == {"number", "string"}
Methods == {"int", "fromCharacters"}

\* A project: the modules it has, by field name, each with its methods.
Projects == UNION { [fs -> SUBSET Methods] : fs \in SUBSET Fields }

\* methodName.toLowerCase()
ToLowerCase(name) == IF name = "fromCharacters" THEN "fromcharacters" ELSE name

\* s.startsWith(p)
StartsWith(s, p) == Len(s) >= Len(p) /\ SubSeq(s, 1, Len(p)) = p

\* The positions at which p occurs in s.
Occurrences(s, p) ==
  { i \in 1..(Len(s) - Len(p) + 1) : SubSeq(s, i, i + Len(p) - 1) = p }

\* s.includes(p)
Includes(s, p) == Occurrences(s, p) # {}

\* The reference set built with the method name alone.
AllowedReferencesNoModule ==
  { <<"faker.", m>> : m \in UNION { modules[f] : f \in DOMAIN modules } }

\* allowedReferences: `faker.${moduleFieldName}.${methodName}` of every method.
AllowedReferences ==
  UNION { { <<"faker.", f, ".", m>> : m \in modules[f] } : f \in DOMAIN modules }

\* The link set built with the method names in their own case.
AllowedLinksCaseKept ==
  UNION { { <<"/", "api", "/", f, ".html">> }
          \cup { <<"/", "api", "/", f, ".html", "#", m>> : m \in modules[f] }
          : f \in DOMAIN modules }

\* allowedLinks: `/api/${moduleFieldName}.html` of every module and
\* `/api/${moduleFieldName}.html#${methodName.toLowerCase()}` of every method.
AllowedLinks ==
  UNION { { <<"/", "api", "/", f, ".html">> }
          \cup { <<"/", "api", "/", f, ".html", "#", ToLowerCase(m)>> : m \in modules[f] }
          : f \in DOMAIN modules }

\* link.replace(/\(.*/, ''): the text before the first '('.
BeforeParen(s) ==
  IF Includes(s, <<"(">>)
    THEN SubSeq(s, 1, (CHOOSE i \in Occurrences(s, <<"(">>) :
                         \A j \in Occurrences(s, <<"(">>) : i <= j) - 1)
    ELSE s

\* The expectations of 'verify @see tags' on one entry.
SeeEntryOk(e) ==
  StartsWith(e, <<"faker.">>) =>
    /\ Includes(e, <<"(">>)
    /\ Includes(e, <<")">>)
    /\ BeforeParen(e) \in AllowedReferences

\* The @see entries the model draws from: a call prefix or none, a dotted
\* path, and what follows it.
SeeEntries ==
  { h \o p \o t :
      h \in { <<"faker.">>, <<"other">> },
      p \in { <<"number", ".", "int">>, <<"string", ".", "fromCharacters">> },
      t \in { <<>>, <<"(">>, <<")">>, <<"(", ")">>, <<"(", "arg", ")">> } }

InitSee ==
  /\ HarnessIdle /\ GenIdle /\ IntIdle
  /\ modules \in Projects
  /\ seeAlsos \in SeqUpTo(SeeEntries, MaxSee)
  /\ seeResult = "pending"
  /\ isHtml = FALSE /\ link = <<>> /\ linkResult = "off" /\ linkCount = 0

\* it('verify @see tags'): extractSeeAlsos(signature).forEach(...); the first
\* failing expect fails the test.
VerifySee ==
  /\ seeResult = "pending"
  /\ seeResult' = IF \A i \in DOMAIN seeAlsos : SeeEntryOk(seeAlsos[i])
                    THEN "pass" ELSE "fail"
  /\ UNCHANGED <<modules, seeAlsos, isHtml, link, linkResult, linkCount>>

NextSee == VerifySee /\ UNCHANGED <<harnessVars, genVars, intVars>>

SpecSee == InitSee /\ [][NextSee]_vars

\* link.replace(/.*fakerjs.dev\//, '/'): everything up to the last
\* 'fakerjs.dev/' becomes '/'.
StripDomain(s) ==
  LET occ == Occurrences(s, <<"fakerjs.dev", "/">>)
  IN  IF occ = {} THEN s
      ELSE LET p == CHOOSE i \in occ : \A j \in occ : j <= i
           IN  <<"/">> \o SubSeq(s, p + 2, Len(s))

\* expect(link).toMatch(/^https?:\/\//) and expect(link).toSatisfy(isURL)
WellFormedUrl(s) ==
  /\ StartsWith(s, <<"https://">>)
  /\ Len(s) >= 2 /\ s[2] \in {"fakerjs.dev", "example.com"}

\* Does assertDescription look the link up in allowedLinks.
IsApiLink(s, html) ==
  IF html THEN StartsWith(s, <<"/", "api", "/">>)
          ELSE Includes(s, <<"fakerjs.dev", "/", "api", "/">>)

\* The body of assertDescription's loop on one link: do its expects hold.
LinkOk(s, html) ==
  /\ ~html => WellFormedUrl(s)
  /\ IsApiLink(s, html) => StripDomain(s) \in AllowedLinks

\* Paths the model draws from: pages of modules, with or without an anchor,
\* and a page outside the API.
LinkPaths ==
  { <<"/", "api", "/", f, ".html">> \o a :
      f \in Fields,
      a \in { <<>>, <<"#", "int">>, <<"#", "fromCharacters">>, <<"#", "fromcharacters">> } }
  \cup { <<"/", "guide">> }

\* Links the model draws from: relative ones, and absolute ones on the
\* documentation domain and on another domain.
Links ==
  LinkPaths \cup { <<"https://", h>> \o p : h \in {"fakerjs.dev", "example.com"}, p \in LinkPaths }

InitLinks ==
  /\ HarnessIdle /\ GenIdle /\ IntIdle
  /\ modules \in Projects
  /\ isHtml \in BOOLEAN
  /\ link = <<>>
  /\ linkResult = "start"
  /\ linkCount = 0
  /\ seeAlsos = <<>> /\ seeResult = "off"

\* One iteration of `for (const link of links)` in assertDescription: the
\* next link of the description is checked; a failing expect ends the loop.
CheckLink ==
  /\ linkResult \in {"start", "accepted"}
  /\ linkCount < MaxLinks
  /\ \E l \in Links :
       /\ link' = l
       /\ linkResult' = IF LinkOk(l, isHtml) THEN "accepted" ELSE "rejected"
  /\ linkCount' = linkCount + 1
  /\ UNCHANGED <<modules, isHtml, seeAlsos, seeResult>>

NextLinks == CheckLink /\ UNCHANGED <<harnessVars, genVars, intVars>>

SpecLinks == InitLinks /\ [][NextLinks]_vars

(***************************************************************************)
(* Claims about reference validation                                       *)
(***************************************************************************)
\* C7: 'verify @see tags' passes iff every entry that begins with 'faker.'
\* contains '(' and ')' and its text before the first '(' is
\* faker.<field>.<method> for a method of a module of the project; entries
\* that do not begin with 'faker.' never make it fail.
C7_SeeCheck ==
  seeResult \in {"pass", "fail"} =>
    ( seeResult = "pass" <=>
        \A i \in DOMAIN seeAlsos :
          seeAlsos[i][1] = "faker." =>
            /\ \E k \in DOMAIN seeAlsos[i] : seeAlsos[i][k] = "("
            /\ \E k \in DOMAIN seeAlsos[i] : seeAlsos[i][k] = ")"
            /\ \E f \in DOMAIN modules : \E m \in modules[f] :
                 \E k \in DOMAIN seeAlsos[i] :
                   /\ seeAlsos[i][k] = "("
                   /\ \A j \in 1..(k - 1) : seeAlsos[i][j] # "("
                   /\ SubSeq(seeAlsos[i], 1, k - 1) = <<"faker.", f, ".", m>> )

\* The check has passed on a signature with a valid method reference and a
\* free-text entry.
C7_Witness ==
  /\ seeResult = "pass"
  /\ \E i \in DOMAIN seeAlsos : seeAlsos[i][1] = "faker."
  /\ \E i \in DOMAIN seeAlsos : seeAlsos[i][1] # "faker."

\* The link just checked is one assertDescription validates as an API page:
\* a '/api/' path on the documentation domain (an absolute link in a plain
\* description, a relative one in an HTML description).
PointsToApiPage ==
  /\ linkResult \in {"accepted", "rejected"}
  /\ IF isHtml THEN StartsWith(link, <<"/", "api", "/">>)
               ELSE StartsWith(link, <<"https://", "fakerjs.dev", "/", "api", "/">>)

\* The domain-stripped path of the link just checked.
LinkPath == IF isHtml THEN link ELSE SubSeq(link, 3, Len(link))

FloorHalf(x2) == x2 \div 2

\* Math.ceil of the half-integer x2 / 2.
CeilHalf(x2) == 0 - ((0 - x2) \div 2)

\* The lower bound rounded down instead of up.
EffectiveMinFloored(min2) == FloorHalf(min2)

\* const effectiveMin = Math.ceil(min)
EffectiveMin(min2) == CeilHalf(min2)

\* const effectiveMax = Math.floor(max)
EffectiveMax(max2) == FloorHalf(max2)

\* [...new Set(exclude)]: the first occurrence of every value, in order.
RECURSIVE Dedupe(_)
Dedupe(s) ==
  IF s = <<>> THEN <<>>
  ELSE LET init == Dedupe(SubSeq(s, 1, Len(s) - 1))
           x == s[Len(s)]
       IN  IF \E i \in DOMAIN init : init[i] = x THEN init ELSE Append(init, x)

\* uniqueExclude: the distinct excluded values that lie in the range.
UniqueExclude(exclude, lo, hi) ==
  LET InRange(v) == v >= lo /\ v <= hi
  IN  SelectSeq(Dedupe(exclude), InRange)

\* uniqueExclude.includes(v)
IncludesValue(s, v) == \E i \in DOMAIN s : s[i] = v

\* generate(): Math.floor(real * (effectiveMax + 1 - effectiveMin) + effectiveMin)
\* for real = k / RandDenom.
Generate(k, lo, hi) == ((k * (hi + 1 - lo)) \div RandDenom) + lo

\* The values options.min and options.max are drawn from, in halves.
Halves == (0 - 2)..(2 * MaxVal)

\* The values exclude entries are drawn from.
ExcludeValues == (0 - 1)..MaxVal

InitInt ==
  /\ HarnessIdle /\ GenIdle /\ RefIdle
  /\ ipc = "ready"
  /\ optMin2 \in Halves
  /\ optMax2 \in Halves
  /\ optExclude \in SeqUpTo(ExcludeValues, MaxExclude)
  /\ result = 0
  /\ err = ""

\* The call with the exclude count compared by > instead of >=.
IntCallOffByOne ==
  /\ ipc = "ready"
  /\ LET lo == EffectiveMin(optMin2)
         hi == EffectiveMax(optMax2)
         ux == UniqueExclude(optExclude, lo, hi)
     IN  IF lo = hi
           THEN ipc' = "returned" /\ result' = lo /\ err' = ""
         ELSE IF hi < lo
           THEN /\ ipc' = "thrown" /\ result' = result
                /\ err' = IF optMax2 >= optMin2 THEN "No integer value between"
                                              ELSE "Max should be greater than min"
         ELSE IF Len(ux) > hi - lo + 1
           THEN /\ ipc' = "thrown" /\ result' = result
                /\ err' = "More values in exclude list than possible values"
         ELSE /\ ipc' = "loop" /\ err' = ""
              /\ \E k \in 0..(RandDenom - 1) : result' = Generate(k, lo, hi)
  /\ UNCHANGED <<optMin2, optMax2, optExclude>>

\* int(options) up to the first generate(): the argument checks, then either
\* an early return, a FakerError, or the first candidate.
IntCall ==
  /\ ipc = "ready"
  /\ LET lo == EffectiveMin(optMin2)
         hi == EffectiveMax(optMax2)
         ux == UniqueExclude(optExclude, lo, hi)
     IN  IF lo = hi
           THEN ipc' = "returned" /\ result' = lo /\ err' = ""
         ELSE IF hi < lo
           THEN /\ ipc' = "thrown" /\ result' = result
                /\ err' = IF optMax2 >= optMin2 THEN "No integer value between"
                                              ELSE "Max should be greater than min"
         ELSE IF Len(ux) >= hi - lo + 1
           THEN /\ ipc' = "thrown" /\ result' = result
                /\ err' = "More values in exclude list than possible values"
         ELSE /\ ipc' = "loop" /\ err' = ""
              /\ \E k \in 0..(RandDenom - 1) : result' = Generate(k, lo, hi)
  /\ UNCHANGED <<optMin2, optMax2, optExclude>>

\* while (uniqueExclude.includes(result)) result = generate();
IntLoop ==
  /\ ipc = "loop"
  /\ LET lo == EffectiveMin(optMin2)
         hi == EffectiveMax(optMax2)
     IN  /\ IncludesValue(UniqueExclude(optExclude, lo, hi), result)
         /\ \E k \in 0..(RandDenom - 1) : result' = Generate(k, lo, hi)
  /\ UNCHANGED <<ipc, optMin2, optMax2, optExclude, err>>

\* return result;
IntReturn ==
  /\ ipc = "loop"
  /\ ~IncludesValue(UniqueExclude(optExclude, EffectiveMin(optMin2),
                                  EffectiveMax(optMax2)), result)
  /\ ipc' = "returned"
  /\ UNCHANGED <<optMin2, optMax2, optExclude, result, err>>

NextInt ==
  \/ IntCall /\ UNCHANGED <<harnessVars, genVars, refVars>>
  \/ IntLoop /\ UNCHANGED <<harnessVars, genVars, refVars>>
  \/ IntReturn /\ UNCHANGED <<harnessVars, genVars, refVars>>

SpecInt == InitInt /\ [][NextInt]_vars

\* An iteration of the loop in which generate() yields v.
DrawLoop(v) ==
  IntLoop /\ result' = v /\ UNCHANGED <<harnessVars, genVars, refVars>>

\* The call runs on, and the randomizer is fair: a value the loop can draw
\* again and again is drawn eventually.
FairSpecInt ==
  /\ SpecInt
  /\ WF_vars(NextInt)
  /\ \A v \in ExcludeValues : WF_vars(DrawLoop(v))

(***************************************************************************)
(* Claims about number.int                                                 *)
(***************************************************************************)
\* The call has got past its argument checks or ended.
IntCalled == ipc \in {"loop", "returned", "thrown"}

\* Every integer i with ceil(min) <= i <= floor(max) is in exclude.
ExcludeCoversRange ==
  \A i \in (0 - 1)..(MaxVal + 1) :
    (2 * i >= optMin2 /\ 2 * i <= optMax2) =>
      \E j \in DOMAIN optExclude : optExclude[j] = i

\* C9: int throws whenever exclude covers every integer of the range (a
\* single-integer range included), and never returns a value in exclude.
C9_ThrowsWhenAllExcluded ==
  /\ (IntCalled /\ ExcludeCoversRange) => ipc = "thrown"
  /\ ipc = "returned" => \A j \in DOMAIN optExclude : optExclude[j] # result

\* C10: a call that returns yields an integer within the inclusive bounds,
\* and a call with max < min throws.
C10_InclusiveBounds ==
  /\ ipc = "returned" => (2 * result >= optMin2 /\ 2 * result <= optMax2)
  /\ (IntCalled /\ optMax2 < optMin2) => ipc = "thrown"

\* A call over a range of several integers has returned its upper end, and
\* the lower end can be drawn there too.
C10_Witness ==
  /\ ipc = "returned"
  /\ 2 * result = optMax2
  /\ optMin2 < optMax2 - 2
  /\ Generate(0, EffectiveMin(optMin2), EffectiveMax(optMax2)) = EffectiveMin(optMin2)

\* C11 (safety part): while the call is in its rejection loop, some integer i
\* with ceil(min) <= i <= floor(max) is not in exclude.
C11_LoopHasFreeValue ==
  ipc = "loop" =>
    \E i \in (0 - 1)..(MaxVal + 1) :
      /\ 2 * i >= optMin2 /\ 2 * i <= optMax2
      /\ \A j \in DOMAIN optExclude : optExclude[j] # i

\* C11: the rejection loop is entered only with a value left to draw, and
\* under a fair randomizer a call in the loop eventually returns.
C11_LoopTerminates ==
  /\ []C11_LoopHasFreeValue
  /\ (ipc = "loop") ~> (ipc = "returned")

\* The loop is rejecting a candidate, for an exclude list that holds a value
\* twice and a value outside the range.
C11_Witness ==
  /\ ipc = "loop"
  /\ IncludesValue(optExclude, result)
  /\ Len(Dedupe(optExclude)) < Len(optExclude)

(***************************************************************************)
(* Claims about the verification harness                                   *)
(***************************************************************************)
\* C1: a 'verify @deprecated tag' check that passed on a callable declaring
\* @deprecated observed at least one warning and found a non-empty message;
\* one that passed on a callable not declaring it observed zero warnings.
C1_DeprecatedVerdict ==
  (lastDep.c # 0 /\ lastDep.passed) =>
    /\ sig.declared => (lastDep.observed >= 1 /\ ~sig.msgEmpty)
    /\ ~sig.declared => lastDep.observed = 0

\* A deprecation check has just passed on a callable that declares @deprecated.
C1_Witness ==
  lastDep.c # 0 /\ lastDep.passed /\ sig.declared

C5_MaterializedFirst ==
  \A c \in 1..ncall :
    /\ writes[c] <= 1
    /\ ( \/ (cur = c /\ running # "none")
         \/ done[c] \cap {"example", "deprecated"} # {}
         \/ phase = "done" ) => writes[c] = 1

\* C5: materialization happens exactly once and first, and after it every
\* check of the callable reaches completion.
C5_MaterializedOnceThenChecks ==
  /\ []C5_MaterializedFirst
  /\ \A c \in 1..NumCallables :
       (IF c <= ncall THEN writes[c] = 1 ELSE FALSE)
         ~> (IF c <= ncall THEN done[c] = Tests ELSE FALSE)

\* The run is over, with some callable materialized once and fully checked.
C5_Witness ==
  phase = "done" /\ \E c \in 1..ncall : writes[c] = 1 /\ done[c] = Tests

\* C6 (safety part): the temp directory does not exist once the run is over,
\* and it exists as long as an importing check of a materialized callable is
\* pending.
C6_TempScoped ==
  /\ phase = "done" => ~tempExists
  /\ \A c \in 1..ncall :
       (writes[c] > 0 /\ {"example", "deprecated"} \ done[c] # {}) => tempExists

\* C6: every run reaches its final state, the temp directory is gone there,
\* and it is never removed under a pending importing check.
C6_TempRemoved ==
  /\ []C6_TempScoped
  /\ <>(phase = "done")

\* The run is over after the temp directory had been created.
C6_Witness ==
  phase = "done" /\ ~tempExists /\ \E c \in 1..ncall : writes[c] = 1

====
